---- MODULE Spec2Model ----
(***************************************************************************)
(* State-threading parser-combinator engine of src/src/lib.rs.             *)
(*                                                                         *)
(* Text is a sequence of one-character strings.  A Parser is a record with *)
(* the fields of `struct Parser`; every parser function of the source is   *)
(* an operator from Parser records to Parser records.  The extra field     *)
(* `halt` records that a call did not return: "panic" for an unwrap() on   *)
(* an Err, "hang" for a `while self.success` loop whose body succeeds      *)
(* without changing the state.                                             *)
(*                                                                         *)
(* Float64 payloads are exact decimals <<mantissa, scale>> (value          *)
(* mantissa / 10^scale, normalised); the literals used in generated        *)
(* programs end in .0 or .5, for which IEEE addition is exact as well.     *)
(***************************************************************************)
EXTENDS Integers, Sequences, FiniteSets, TLC

VARIABLES parser, entry, op, src, steps, query

vars == <<parser, entry, op, src, steps, query>>

(***************************************************************************)
(* Bounds                                                                  *)
(***************************************************************************)
\* longest chain of public operations applied to one Parser::new state
MaxSteps == 2
\* most statements in a generated program
MaxStmts == 3
\* most numeric literals in a generated program or sum
MaxLeaves == 3

(***************************************************************************)
(* Text helpers                                                            *)
(***************************************************************************)
CR == "\r"

LF == "\n"

CRLF == <<CR, LF>>

Digits == {"0", "1", "2", "3", "4", "5", "6", "7", "8", "9"}

\* char::to_digit(10)
DigitValue(c) ==
    CASE c = "0" -> 0 [] c = "1" -> 1 [] c = "2" -> 2 [] c = "3" -> 3
      [] c = "4" -> 4 [] c = "5" -> 5 [] c = "6" -> 6 [] c = "7" -> 7
      [] c = "8" -> 8 [] c = "9" -> 9

\* str::get(0..w.len()) == Some(w)
StartsWith(text, w) ==
    /\ Len(text) >= Len(w)
    /\ SubSeq(text, 1, Len(w)) = w

\* &text[n..]
Drop(text, n) == SubSeq(text, n + 1, Len(text))

\* graphemes(true).next(): CR LF is one extended grapheme cluster
NextGrapheme(text) ==
    IF text = <<>> THEN <<>>
    ELSE IF StartsWith(text, CRLF) THEN CRLF
    ELSE <<text[1]>>

AllDigits(text) == \A i \in 1..Len(text) : text[i] \in Digits

RECURSIVE DigitsValue(_)
DigitsValue(ds) ==
    IF ds = <<>> THEN 0
    ELSE 10 * DigitsValue(SubSeq(ds, 1, Len(ds) - 1)) + DigitValue(ds[Len(ds)])

Unsigned(text) ==
    IF text # <<>> /\ text[1] \in {"+", "-"} THEN Drop(text, 1) ELSE text

Negative(text) == text # <<>> /\ text[1] = "-"

\* <i64 as FromStr>::from_str: optional sign, then one or more digits.
\* <<v>> is Ok(v), <<>> is Err.
ParseInt(text) ==
    LET ds == Unsigned(text) IN
    IF ds # <<>> /\ AllDigits(ds)
    THEN << (IF Negative(text) THEN 0 - DigitsValue(ds) ELSE DigitsValue(ds)) >>
    ELSE <<>>

RECURSIVE Pow10(_)
Pow10(n) == IF n = 0 THEN 1 ELSE 10 * Pow10(n - 1)

RECURSIVE NormFloat(_)
NormFloat(f) ==
    IF f[2] > 0 /\ f[1] % 10 = 0 THEN NormFloat(<<f[1] \div 10, f[2] - 1>>)
    ELSE f

FloatAdd(a, b) ==
    LET e == IF a[2] > b[2] THEN a[2] ELSE b[2] IN
    NormFloat(<<a[1] * Pow10(e - a[2]) + b[1] * Pow10(e - b[2]), e>>)

DotAt(text) ==
    IF \E i \in 1..Len(text) : text[i] = "."
    THEN CHOOSE i \in 1..Len(text) :
            /\ text[i] = "."
            /\ \A j \in 1..(i - 1) : text[j] # "."
    ELSE 0

\* <f64 as FromStr>::from_str restricted to the characters of the model:
\* optional sign, then digits, digits '.' digits* or digits* '.' digits+.
ParseFloat(text) ==
    LET body  == Unsigned(text)
        dot   == DotAt(body)
        whole == IF dot = 0 THEN body ELSE SubSeq(body, 1, dot - 1)
        frac  == IF dot = 0 THEN <<>> ELSE Drop(body, dot)
        mant  == DigitsValue(whole \o frac)
    IN
    IF /\ AllDigits(whole)
       /\ AllDigits(frac)
       /\ whole \o frac # <<>>
    THEN << NormFloat(<<IF Negative(text) THEN 0 - mant ELSE mant, Len(frac)>>) >>
    ELSE <<>>

(***************************************************************************)
(* ParserElement and the output arena                                      *)
(***************************************************************************)
\* Option fields: <<>> is None, <<v>> is Some(v)
ParserElement_new ==
    [el_type |-> "None", int64 |-> <<>>, float64 |-> <<>>,
     string |-> <<>>, var_name |-> <<>>]

\* indextree::Arena with the root node created by Parser::new.  nodes is the
\* storage order, children the live children of the root, oldest first.
Arena_new ==
    [nodes    |-> << [el |-> ParserElement_new, removed |-> FALSE] >>,
     children |-> <<>>]

\* the root of the language arena:
\* (ParserFunctionType::None, ParserFunctionParam::None)
LangRoot == [name |-> "None", word |-> <<>>, inner |-> <<>>]

\* mutant: the original is not kept
new_without_original(input_string) ==
    [input_original  |-> <<>>,
     input_remaining |-> input_string,
     chomp           |-> <<>>,
     chomping        |-> TRUE,
     language_arena  |-> <<LangRoot>>,
     output_arena    |-> Arena_new,
     success         |-> TRUE,
     display_errors  |-> TRUE,
     halt            |-> "none"]

\* Parser::new.  language_arena is the storage order of its nodes; a node is
\* a ParserFunctionTypeAndParam, written as the parser function value that
\* calling its function with its parameter is.
new(input_string) ==
    [input_original  |-> input_string,
     input_remaining |-> input_string,
     chomp           |-> <<>>,
     chomping        |-> TRUE,
     language_arena  |-> <<LangRoot>>,
     output_arena    |-> Arena_new,
     success         |-> TRUE,
     display_errors  |-> TRUE,
     halt            |-> "none"]

Halted(self) == self.halt # "none"

\* the live children of the fixed parent, oldest first
LiveChildren(self) ==
    [i \in 1..Len(self.output_arena.children) |->
        self.output_arena.nodes[self.output_arena.children[i]].el]

\* arena.iter().filter(|x| x.get().var_name == Some(var_name)): every node in
\* storage order, the removed ones too
list_of_nodes_with_var_name(self, var_name) ==
    SelectSeq(self.output_arena.nodes, LAMBDA x : x.el.var_name = <<var_name>>)

output_arena_find_element_var(self, var_name) ==
    LET found_nodes == list_of_nodes_with_var_name(self, var_name) IN
    IF Len(found_nodes) > 0 THEN << found_nodes[1].el >> ELSE <<>>

\* the arguments and the Option returned by the last arena query
NoQuery == [index |-> 0, var_name |-> <<>>, result |-> <<>>]

output_arena_append_element(self, el) ==
    LET arena == self.output_arena
        id    == Len(arena.nodes) + 1
    IN [self EXCEPT !.output_arena =
            [nodes    |-> Append(arena.nodes, [el |-> el, removed |-> FALSE]),
             children |-> Append(arena.children, id)]]

\* reverse_children(arena).nth(index): <<>> is None
NthLastChildId(self, index) ==
    LET ch == self.output_arena.children IN
    IF index < Len(ch) THEN << ch[Len(ch) - index] >> ELSE <<>>

\* mutant: the index counts from the oldest child
output_arena_get_nth_last_child_element_from_oldest(self, index) ==
    LET ch == self.output_arena.children IN
    IF index < Len(ch) THEN << self.output_arena.nodes[ch[index + 1]].el >>
    ELSE <<>>

output_arena_get_nth_last_child_element(self, index) ==
    LET id == NthLastChildId(self, index) IN
    IF id = <<>> THEN <<>> ELSE << self.output_arena.nodes[id[1]].el >>

output_arena_get_last_child_element(self) ==
    LET ch == self.output_arena.children IN
    IF ch = <<>> THEN <<>> ELSE << self.output_arena.nodes[ch[Len(ch)]].el >>

\* mutant: the index counts from the second newest child
output_arena_remove_nth_last_child_element_shifted(self, index) ==
    LET id == NthLastChildId(self, index + 1)
        ch == self.output_arena.children
        k  == Len(ch) - (index + 1)
    IN
    IF id = <<>> THEN self
    ELSE [self EXCEPT
            !.output_arena.nodes[id[1]].removed = TRUE,
            !.output_arena.children =
                SubSeq(ch, 1, k - 1) \o SubSeq(ch, k + 1, Len(ch))]

\* mutant: the children newer than the removed one go with it
output_arena_remove_nth_last_child_element_and_newer(self, index) ==
    LET id == NthLastChildId(self, index)
        ch == self.output_arena.children
        k  == Len(ch) - index
    IN
    IF id = <<>> THEN self
    ELSE [self EXCEPT
            !.output_arena.nodes[id[1]].removed = TRUE,
            !.output_arena.children = SubSeq(ch, 1, k - 1)]

output_arena_remove_nth_last_child_element(self, index) ==
    LET id == NthLastChildId(self, index)
        ch == self.output_arena.children
        k  == Len(ch) - index
    IN
    IF id = <<>> THEN self
    ELSE [self EXCEPT
            !.output_arena.nodes[id[1]].removed = TRUE,
            !.output_arena.children =
                SubSeq(ch, 1, k - 1) \o SubSeq(ch, k + 1, Len(ch))]

chomp_clear(self) ==
    IF Halted(self) THEN self ELSE [self EXCEPT !.chomp = <<>>]

(***************************************************************************)
(* Parser function values (fn(Parser) -> Parser and the closures built on  *)
(* them): name of the function, its word parameter, its parser parameters  *)
(***************************************************************************)
Fn(name) == [name |-> name, word |-> <<>>, inner |-> <<>>]

\* |s| Parser::prim_word(s, word)
FnWord(word) == [name |-> "prim_word", word |-> word, inner |-> <<>>]

\* |s| Parser::<combinator>(s, inner)
FnCombi(name, inner) == [name |-> name, word |-> <<>>, inner |-> inner]

RECURSIVE Apply(_, _)

(***************************************************************************)
(* Primitives.  display_error only prints, so it does not appear.          *)
(***************************************************************************)
\* the success branch shared by the primitives: advance input_remaining,
\* append to chomp iff chomping, success = true
\* mutant: the consumed text is appended to chomp whatever chomping is
Consume_chomping_ignored(self, next) ==
    [self EXCEPT !.input_remaining = Drop(@, Len(next)),
                 !.chomp = @ \o next,
                 !.success = TRUE]

Consume(self, next) ==
    [self EXCEPT !.input_remaining = Drop(@, Len(next)),
                 !.chomp = IF self.chomping THEN @ \o next ELSE @,
                 !.success = TRUE]

prim_eof(self) ==
    IF Halted(self) THEN self
    ELSE IF self.success /\ Len(self.input_remaining) = 0 THEN self
    ELSE [self EXCEPT !.success = FALSE]

prim_next(self) ==
    IF Halted(self) THEN self
    ELSE IF self.success THEN
        LET at_eof == prim_eof(self)
            next   == NextGrapheme(at_eof.input_remaining)
        IN
        IF at_eof.success THEN [at_eof EXCEPT !.success = FALSE]
        ELSE IF next # <<>> THEN Consume(at_eof, next)
        ELSE [at_eof EXCEPT !.success = FALSE]
    ELSE self

\* mutant: a mismatch after a matching first character consumes that character
prim_word_partial(self, expected) ==
    IF Halted(self) THEN self
    ELSE IF self.success THEN
        IF StartsWith(self.input_remaining, expected)
        THEN Consume(self, expected)
        ELSE IF /\ expected # <<>>
                /\ StartsWith(self.input_remaining, <<expected[1]>>)
        THEN [Consume(self, <<expected[1]>>) EXCEPT !.success = FALSE]
        ELSE [self EXCEPT !.success = FALSE]
    ELSE self

prim_word(self, expected) ==
    IF Halted(self) THEN self
    ELSE IF self.success THEN
        IF StartsWith(self.input_remaining, expected)
        THEN Consume(self, expected)
        ELSE [self EXCEPT !.success = FALSE]
    ELSE self

\* prim_space, prim_quote and prim_quote_single: prim_word with chomping off
WordNoChomp(self, word) ==
    IF Halted(self) THEN self
    ELSE LET chomping_previous_flag_setting == self.chomping
             matched == prim_word([self EXCEPT !.chomping = FALSE], word)
         IN [matched EXCEPT !.chomping = chomping_previous_flag_setting]

prim_space(self) == WordNoChomp(self, <<" ">>)

prim_quote(self) == WordNoChomp(self, <<"\"">>)

prim_quote_single(self) == WordNoChomp(self, <<"'">>)

prim_char(self) ==
    IF Halted(self) THEN self
    ELSE IF self.success THEN
        LET next == NextGrapheme(self.input_remaining) IN
        IF next # <<>> THEN
            IF next = <<" ">> THEN [self EXCEPT !.success = FALSE]
            ELSE Consume(self, next)
        ELSE [self EXCEPT !.success = FALSE]
    ELSE self

prim_digit(self) ==
    IF Halted(self) THEN self
    ELSE IF self.success THEN
        IF self.input_remaining # <<>> /\ self.input_remaining[1] \in Digits
        THEN Consume(self, <<self.input_remaining[1]>>)
        ELSE [self EXCEPT !.success = FALSE]
    ELSE self

(***************************************************************************)
(* Combinators                                                             *)
(***************************************************************************)
\* while self.success { self = func(self); }
\* A body that succeeds and returns the state it was given repeats for ever.
RECURSIVE WhileSuccess(_, _)
WhileSuccess(self, func) ==
    IF Halted(self) \/ ~self.success THEN self
    ELSE LET next == Apply(func, self) IN
         IF next = self THEN [self EXCEPT !.halt = "hang"]
         ELSE WhileSuccess(next, func)

combi_one_or_more_of(self, func) ==
    IF Halted(self) THEN self
    ELSE IF self.success THEN
        LET chomp  == self.chomp
            display_errors_previous_flag_setting == self.display_errors
            looped == WhileSuccess([self EXCEPT !.display_errors = FALSE], func)
        IN
        IF Halted(looped) THEN looped
        ELSE IF looped.chomp = chomp
        THEN [looped EXCEPT
                !.display_errors = display_errors_previous_flag_setting,
                !.success = FALSE]
        ELSE [looped EXCEPT
                !.display_errors = display_errors_previous_flag_setting,
                !.success = TRUE]
    ELSE self

combi_zero_or_more_of(self, func) ==
    IF Halted(self) THEN self
    ELSE IF self.success THEN
        LET display_errors_previous_flag_setting == self.display_errors
            looped == WhileSuccess([self EXCEPT !.display_errors = FALSE], func)
        IN
        IF Halted(looped) THEN looped
        ELSE [looped EXCEPT
                !.display_errors = display_errors_previous_flag_setting,
                !.success = TRUE]
    ELSE self

\* mutant: a failed attempt is rolled back to the state before it
combi_optional_rollback(self, func) ==
    IF Halted(self) THEN self
    ELSE IF self.success THEN
        LET done == Apply(func, self) IN
        IF Halted(done) \/ done.success THEN done ELSE self
    ELSE self

combi_optional(self, func) ==
    IF Halted(self) THEN self
    ELSE IF self.success THEN
        LET done == Apply(func, self) IN
        IF Halted(done) THEN done ELSE [done EXCEPT !.success = TRUE]
    ELSE self

\* mutant: the alternatives run on one state instead of on clones of self
RECURSIVE FirstSuccessFrom_threaded(_, _, _)
FirstSuccessFrom_threaded(self, funcs, i) ==
    IF i > Len(funcs) THEN [self EXCEPT !.success = FALSE]
    ELSE
        LET display_errors_previous_flag_setting == self.display_errors
            tried    == Apply(funcs[i], [self EXCEPT !.display_errors = FALSE,
                                                     !.success = TRUE])
            new_self == IF Halted(tried) THEN tried
                        ELSE [tried EXCEPT !.display_errors =
                                display_errors_previous_flag_setting]
        IN
        IF Halted(new_self) \/ new_self.success THEN new_self
        ELSE FirstSuccessFrom_threaded(new_self, funcs, i + 1)

\* the for loop of combi_first_success_of from alternative i on
RECURSIVE FirstSuccessFrom(_, _, _)
FirstSuccessFrom(self, funcs, i) ==
    IF i > Len(funcs) THEN [self EXCEPT !.success = FALSE]
    ELSE
        LET display_errors_previous_flag_setting == self.display_errors
            tried    == Apply(funcs[i], [self EXCEPT !.display_errors = FALSE])
            new_self == IF Halted(tried) THEN tried
                        ELSE [tried EXCEPT !.display_errors =
                                display_errors_previous_flag_setting]
        IN
        IF Halted(new_self) \/ new_self.success THEN new_self
        ELSE FirstSuccessFrom(self, funcs, i + 1)

\* mutant: when every alternative failed, the last clone is returned
combi_first_success_of_last_clone(self, funcs) ==
    IF Halted(self) THEN self
    ELSE IF self.success THEN
        LET found == FirstSuccessFrom(self, funcs, 1)
            last  == Apply(funcs[Len(funcs)], self)
        IN
        IF Halted(found) \/ found.success \/ funcs = <<>> THEN found
        ELSE [last EXCEPT !.success = FALSE]
    ELSE self

combi_first_success_of(self, funcs) ==
    IF Halted(self) THEN self
    ELSE IF self.success THEN FirstSuccessFrom(self, funcs, 1)
    ELSE self

combi_until_first_do_second(self, first_and_second) ==
    IF Halted(self) THEN self
    ELSE IF self.success THEN
        LET display_errors_previous_flag_setting == self.display_errors
            looped == WhileSuccess([self EXCEPT !.display_errors = FALSE],
                        FnCombi("combi_first_success_of", first_and_second))
        IN
        IF Halted(looped) THEN looped
        ELSE [looped EXCEPT
                !.display_errors = display_errors_previous_flag_setting,
                !.success = TRUE]
    ELSE self

\* mutant: only runs of CR LF are end-of-line sequences
prim_eols_crlf_only(self) ==
    IF Halted(self) THEN self
    ELSE IF self.success THEN
        LET newline1 == combi_one_or_more_of(self, FnWord(CRLF)) IN
        IF newline1.success THEN newline1
        ELSE [self EXCEPT !.success = FALSE]
    ELSE self

\* mutant: one run of end-of-line sequences of both kinds
prim_eols_mixed(self) ==
    IF Halted(self) THEN self
    ELSE IF self.success THEN
        LET newline == combi_one_or_more_of(self,
                          FnCombi("combi_first_success_of",
                                  <<FnWord(CRLF), FnWord(<<LF>>)>>))
        IN
        IF newline.success THEN newline
        ELSE [self EXCEPT !.success = FALSE]
    ELSE self

\* prim_eols and prim_eols_or_eof are built on the combinators
prim_eols(self) ==
    IF Halted(self) THEN self
    ELSE IF self.success THEN
        LET newline1 == combi_one_or_more_of(self, FnWord(CRLF))
            newline2 == combi_one_or_more_of(self, FnWord(<<LF>>))
        IN
        IF newline1.success THEN newline1
        ELSE IF newline2.success THEN newline2
        ELSE [self EXCEPT !.success = FALSE]
    ELSE self

prim_eols_or_eof(self) ==
    IF Halted(self) THEN self
    ELSE IF self.success THEN
        LET display_errors_previous_flag_setting == self.display_errors
            tried == combi_first_success_of([self EXCEPT !.display_errors = FALSE],
                        <<Fn("prim_eols"), Fn("prim_eof")>>)
        IN [tried EXCEPT !.display_errors = display_errors_previous_flag_setting]
    ELSE self

(***************************************************************************)
(* Element parsers                                                         *)
(***************************************************************************)
el_str(self) ==
    IF Halted(self) THEN self
    ELSE IF self.success THEN
        LET display_errors_previous_flag_setting == self.display_errors
            quoted  == prim_quote([self EXCEPT !.display_errors = FALSE])
            scanned == combi_until_first_do_second(quoted,
                            <<Fn("prim_quote"), Fn("prim_next")>>)
            matched == [scanned EXCEPT !.display_errors =
                            display_errors_previous_flag_setting]
            el      == [ParserElement_new EXCEPT
                            !.el_type = "Str", !.string = <<matched.chomp>>]
        IN
        IF Halted(scanned) THEN scanned
        ELSE IF matched.success
        THEN chomp_clear(output_arena_append_element(matched, el))
        ELSE matched
    ELSE self

\* mutant: an integer may not be followed by a decimal point
el_int_not_before_dot(self) ==
    IF Halted(self) THEN self
    ELSE IF self.success THEN
        LET display_errors_previous_flag_setting == self.display_errors
            signed  == combi_optional([self EXCEPT !.display_errors = FALSE],
                            FnWord(<<"-">>))
            scanned == combi_one_or_more_of(signed, Fn("prim_digit"))
            matched == [scanned EXCEPT !.display_errors =
                            display_errors_previous_flag_setting]
            val     == ParseInt(matched.chomp)
            el      == [ParserElement_new EXCEPT
                            !.el_type = "Int64", !.int64 = val]
        IN
        IF Halted(scanned) THEN scanned
        ELSE IF matched.success THEN
            IF StartsWith(matched.input_remaining, <<".">>)
            THEN [matched EXCEPT !.success = FALSE]
            ELSE IF val = <<>> THEN [matched EXCEPT !.halt = "panic"]
            ELSE chomp_clear(output_arena_append_element(matched, el))
        ELSE matched
    ELSE self

el_int(self) ==
    IF Halted(self) THEN self
    ELSE IF self.success THEN
        LET display_errors_previous_flag_setting == self.display_errors
            signed  == combi_optional([self EXCEPT !.display_errors = FALSE],
                            FnWord(<<"-">>))
            scanned == combi_one_or_more_of(signed, Fn("prim_digit"))
            matched == [scanned EXCEPT !.display_errors =
                            display_errors_previous_flag_setting]
            val     == ParseInt(matched.chomp)
            el      == [ParserElement_new EXCEPT
                            !.el_type = "Int64", !.int64 = val]
        IN
        IF Halted(scanned) THEN scanned
        ELSE IF matched.success THEN
            IF val = <<>> THEN [matched EXCEPT !.halt = "panic"]
            ELSE chomp_clear(output_arena_append_element(matched, el))
        ELSE matched
    ELSE self

el_float(self) ==
    IF Halted(self) THEN self
    ELSE IF self.success THEN
        LET display_errors_previous_flag_setting == self.display_errors
            signed  == combi_optional([self EXCEPT !.display_errors = FALSE],
                            FnWord(<<"-">>))
            whole   == combi_one_or_more_of(signed, Fn("prim_digit"))
            dotted  == prim_word(whole, <<".">>)
            scanned == combi_one_or_more_of(dotted, Fn("prim_digit"))
            matched == [scanned EXCEPT !.display_errors =
                            display_errors_previous_flag_setting]
            val     == ParseFloat(matched.chomp)
            el      == [ParserElement_new EXCEPT
                            !.el_type = "Float64", !.float64 = val]
        IN
        IF Halted(scanned) THEN scanned
        ELSE IF matched.success THEN
            IF val = <<>> THEN [matched EXCEPT !.halt = "panic"]
            ELSE chomp_clear(output_arena_append_element(matched, el))
        ELSE matched
    ELSE self

el_var(self) ==
    IF Halted(self) THEN self
    ELSE
        LET named   == combi_one_or_more_of(self, Fn("prim_char"))
            matched == prim_word(named, <<" ">>)
            chomp   == matched.chomp
            el      == [ParserElement_new EXCEPT
                            !.el_type = "Var",
                            !.var_name = <<SubSeq(chomp, 1, Len(chomp) - 1)>>]
        IN
        IF Halted(matched) THEN matched
        ELSE IF matched.success
        THEN chomp_clear(output_arena_append_element(matched, el))
        ELSE matched

(***************************************************************************)
(* Function parsers                                                        *)
(***************************************************************************)
\* fn_var_sum | el_float | el_int
ValueParsers == <<Fn("fn_var_sum"), Fn("el_float"), Fn("el_int")>>

\* mutant: chomp is not cleared after the opening word and the space
SumOperands_no_chomp_clear(opened) ==
    LET first  == combi_first_success_of(opened, ValueParsers)
        spaced == prim_word(first, <<" ">>)
    IN combi_first_success_of(spaced, ValueParsers)

\* the two operands and the closing word shared by both alternatives of
\* fn_var_sum, after the opening word
SumOperands(opened) ==
    LET first  == combi_first_success_of(chomp_clear(opened), ValueParsers)
        spaced == prim_word(first, <<" ">>)
    IN combi_first_success_of(chomp_clear(spaced), ValueParsers)

\* the fold of the two newest children, self being the alternative that
\* succeeded
SumFold(self, original_self) ==
    LET variable2_el_option == output_arena_get_nth_last_child_element(self, 0)
        variable1_el_option == output_arena_get_nth_last_child_element(self, 1)
        failed == [original_self EXCEPT !.success = FALSE]
    IN
    IF variable1_el_option = <<>> \/ variable2_el_option = <<>> THEN failed
    ELSE
        LET variable1_el == variable1_el_option[1]
            variable2_el == variable2_el_option[1]
            el1_type == variable1_el.el_type
            el2_type == variable2_el.el_type
            folded(el) ==
                chomp_clear(output_arena_append_element(
                    output_arena_remove_nth_last_child_element(
                        output_arena_remove_nth_last_child_element(self, 0), 0),
                    el))
        IN
        IF el1_type = "None" \/ el2_type = "None" THEN self
        ELSE IF el1_type # el2_type THEN self
        ELSE IF el1_type = "Int64" THEN
            IF variable1_el.int64 # <<>> /\ variable2_el.int64 # <<>>
            THEN folded([ParserElement_new EXCEPT
                    !.el_type = "Int64",
                    !.int64 = <<variable1_el.int64[1] + variable2_el.int64[1]>>])
            ELSE failed
        ELSE IF el1_type = "Str" THEN failed
        ELSE
            IF variable1_el.float64 # <<>> /\ variable2_el.float64 # <<>>
            THEN folded([ParserElement_new EXCEPT
                    !.el_type = "Float64",
                    !.float64 = <<FloatAdd(variable1_el.float64[1],
                                           variable2_el.float64[1])>>])
            ELSE failed

\* mutant: a failure returns the with-brackets attempt, not original_self
fn_var_sum_keeps_attempt(self) ==
    IF Halted(self) THEN self
    ELSE
        LET original_self    == self
            without_brackets == SumOperands(prim_word(self, <<"+", " ">>))
            with_brackets    ==
                prim_word(SumOperands(prim_word(self, <<"(", "+", " ">>)), <<")">>)
        IN
        IF Halted(without_brackets) THEN without_brackets
        ELSE IF Halted(with_brackets) THEN with_brackets
        ELSE IF without_brackets.success
        THEN SumFold(without_brackets, original_self)
        ELSE IF with_brackets.success
        THEN SumFold(with_brackets, original_self)
        ELSE with_brackets

fn_var_sum(self) ==
    IF Halted(self) THEN self
    ELSE
        LET original_self    == self
            without_brackets == SumOperands(prim_word(self, <<"+", " ">>))
            with_brackets    ==
                prim_word(SumOperands(prim_word(self, <<"(", "+", " ">>)), <<")">>)
        IN
        IF Halted(without_brackets) THEN without_brackets
        ELSE IF Halted(with_brackets) THEN with_brackets
        ELSE IF without_brackets.success
        THEN SumFold(without_brackets, original_self)
        ELSE IF with_brackets.success
        THEN SumFold(with_brackets, original_self)
        ELSE [original_self EXCEPT !.success = FALSE]

fn_var_assign(self) ==
    IF Halted(self) THEN self
    ELSE
        LET named     == el_var(chomp_clear(prim_word(self, <<"=", " ">>)))
            valued    == combi_first_success_of(named, ValueParsers)
            temp_self == prim_eols_or_eof(valued)
            variable_el_option ==
                output_arena_get_nth_last_child_element(temp_self, 1)
            value_el_option ==
                output_arena_get_nth_last_child_element(temp_self, 0)
        IN
        IF Halted(temp_self) THEN temp_self
        ELSE IF temp_self.success THEN
            IF variable_el_option # <<>> /\ value_el_option # <<>> THEN
                LET value_el == [value_el_option[1] EXCEPT
                                    !.el_type = "Var",
                                    !.var_name = variable_el_option[1].var_name]
                IN chomp_clear(output_arena_append_element(
                        output_arena_remove_nth_last_child_element(
                            output_arena_remove_nth_last_child_element(
                                temp_self, 0), 0),
                        value_el))
            ELSE temp_self
        ELSE temp_self

\* mutant: the statement parser runs on self, not on a clone of it
RECURSIVE ParseLoop_on_self(_)
ParseLoop_on_self(self) ==
    IF Halted(self) \/ ~self.success \/ Len(self.input_remaining) = 0 THEN self
    ELSE LET tried == fn_var_assign(self)
             next  == IF Halted(tried) \/ tried.success THEN tried
                      ELSE IF prim_eols(self).success THEN prim_eols(self)
                      ELSE tried
         IN IF next = self THEN [self EXCEPT !.halt = "hang"]
            ELSE ParseLoop_on_self(next)

\* mutant: the loop goes on after a failed round
RECURSIVE ParseLoop_ignoring_success(_)
ParseLoop_ignoring_success(self) ==
    IF Halted(self) \/ Len(self.input_remaining) = 0 THEN self
    ELSE LET next == combi_first_success_of(self,
                        <<Fn("fn_var_assign"), Fn("prim_eols")>>)
         IN IF next = self THEN [self EXCEPT !.halt = "hang"]
            ELSE ParseLoop_ignoring_success(next)

\* while self.success && self.input_remaining.len() > 0 { ... }
RECURSIVE ParseLoop(_)
ParseLoop(self) ==
    IF Halted(self) \/ ~self.success \/ Len(self.input_remaining) = 0 THEN self
    ELSE LET next == combi_first_success_of(self,
                        <<Fn("fn_var_assign"), Fn("prim_eols")>>)
         IN IF next = self THEN [self EXCEPT !.halt = "hang"]
            ELSE ParseLoop(next)

\* mutant: one round of the loop only
parse_once(self) ==
    IF Halted(self) \/ ~self.success \/ Len(self.input_remaining) = 0 THEN self
    ELSE combi_first_success_of(self, <<Fn("fn_var_assign"), Fn("prim_eols")>>)

parse(self) == ParseLoop(self)

(***************************************************************************)
(* Language aliases: a description string is compiled into the language    *)
(* arena, whose nodes are then applied to the input                        *)
(***************************************************************************)
language_arena_append_functionTypeAndParam(self, fp) ==
    [self EXCEPT !.language_arena = Append(@, fp)]

lang_factory_takes_parser(self, word, pf, error_text) ==
    IF Halted(self) THEN self
    ELSE IF self.success THEN
        LET matched == prim_word(self, word) IN
        IF matched.success
        THEN language_arena_append_functionTypeAndParam(matched, pf)
        ELSE matched
    ELSE self

lang_prim_next(self) ==
    lang_factory_takes_parser(self, <<">">>, Fn("prim_next"), "lang_prim_next")

lang_prim_quote(self) ==
    lang_factory_takes_parser(self, <<"\"">>, Fn("prim_quote"), "lang_prim_quote")

lang_prim_char(self) ==
    lang_factory_takes_parser(self, <<"@">>, Fn("prim_char"), "lang_prim_char")

lang_prim_digit(self) ==
    lang_factory_takes_parser(self, <<"#">>, Fn("prim_digit"), "lang_prim_digit")

lang_prim_eols(self) ==
    lang_factory_takes_parser(self, <<",">>, Fn("prim_eols"), "lang_prim_eols")

lang_prim_eof(self) ==
    lang_factory_takes_parser(self, <<".">>, Fn("prim_eof"), "lang_prim_eof")

lang_prim_eols_or_eof(self) ==
    lang_factory_takes_parser(self, <<";">>, Fn("prim_eols_or_eof"),
                              "lang_prim_eols_or_eof")

lang_prim_word(self) ==
    IF Halted(self) THEN self
    ELSE IF self.success THEN
        LET display_errors_previous_flag_setting == self.display_errors
            quoted  == prim_quote_single([self EXCEPT !.display_errors = FALSE])
            scanned == combi_until_first_do_second(quoted,
                            <<Fn("prim_quote_single"), Fn("prim_next")>>)
            matched == [scanned EXCEPT !.display_errors =
                            display_errors_previous_flag_setting]
            fp      == FnWord(matched.chomp)
        IN
        IF Halted(scanned) THEN scanned
        ELSE IF matched.success
        THEN chomp_clear(language_arena_append_functionTypeAndParam(matched, fp))
        ELSE matched
    ELSE self

\* nothing is appended to the language arena: the push is commented out
lang_combi_one_or_more(self) ==
    IF Halted(self) THEN self
    ELSE IF self.success THEN
        LET display_errors_previous_flag_setting == self.display_errors
            opened  == prim_word([self EXCEPT !.display_errors = FALSE],
                                 <<"1", "+">>)
            spaced  == combi_zero_or_more_of(opened, Fn("prim_space"))
            scanned == combi_until_first_do_second(spaced,
                            <<Fn("prim_space"), Fn("prim_next")>>)
            matched == [scanned EXCEPT !.display_errors =
                            display_errors_previous_flag_setting]
        IN
        IF Halted(scanned) THEN scanned
        ELSE IF matched.success THEN chomp_clear(matched)
        ELSE matched
    ELSE self

\* lang_combi_one_or_more is commented out of the list
lang_one_of_all_lang_parsers(self) ==
    combi_first_success_of(self,
        <<Fn("lang_prim_word"), Fn("lang_prim_eols_or_eof"), Fn("lang_prim_eof"),
          Fn("lang_prim_eols"), Fn("lang_prim_quote"), Fn("lang_prim_digit"),
          Fn("lang_prim_char"), Fn("lang_prim_next")>>)

\* while parser_lang.success && parser_lang.input_remaining.len() > 0 { ... }
\* (the state one iteration returns is bound as a value, through a
\* one-element set, before the next iteration reads it)
RECURSIVE LangLoop(_)
LangLoop(parser_lang) ==
    IF \/ Halted(parser_lang)
       \/ ~parser_lang.success
       \/ Len(parser_lang.input_remaining) = 0
    THEN parser_lang
    ELSE CHOOSE done \in
            { IF next = parser_lang THEN [parser_lang EXCEPT !.halt = "hang"]
              ELSE LangLoop(next)
              : next \in {lang_one_of_all_lang_parsers(parser_lang)} } : TRUE

\* language_arena.iter() without the removed nodes (none is ever removed)
\* and without the root
list_of_nodes(parser_lang) ==
    SelectSeq(parser_lang.language_arena, LAMBDA fp : fp # LangRoot)

\* mutant: the nodes are applied newest first
RECURSIVE RunNodes_newest_first(_, _)
RunNodes_newest_first(nodes, self) ==
    IF nodes = <<>> THEN self
    ELSE CHOOSE done \in
            { RunNodes_newest_first(SubSeq(nodes, 1, Len(nodes) - 1), next)
              : next \in {Apply(nodes[Len(nodes)], self)} } : TRUE

\* for node in list_of_nodes { parser = fun(parser) or fun(parser, string) }
RECURSIVE RunNodes(_, _)
RunNodes(nodes, self) ==
    IF nodes = <<>> THEN self
    ELSE CHOOSE done \in
            { RunNodes(Tail(nodes), next)
              : next \in {Apply(nodes[1], self)} } : TRUE

\* mutant: a description that stopped compiling makes the result a failure
new_and_parse_aliases_reports_compile(input_string, parser_lang_string) ==
    CHOOSE returned \in
        { IF Halted(parser_lang)
          THEN [new(input_string) EXCEPT !.halt = parser_lang.halt]
          ELSE CHOOSE done \in
                  { [ran EXCEPT !.success = ran.success /\ parser_lang.success]
                    : ran \in {RunNodes(list_of_nodes(parser_lang),
                                        new(input_string))} } : TRUE
          : parser_lang \in {LangLoop(new(parser_lang_string))} } : TRUE

new_and_parse_aliases(input_string, parser_lang_string) ==
    CHOOSE returned \in
        { IF Halted(parser_lang)
          THEN [new(input_string) EXCEPT !.halt = parser_lang.halt]
          ELSE CHOOSE done \in
                  { RunNodes(nodes, new(input_string))
                    : nodes \in {list_of_nodes(parser_lang)} } : TRUE
          : parser_lang \in {LangLoop(new(parser_lang_string))} } : TRUE

(***************************************************************************)
(* Calling a parser function value                                         *)
(***************************************************************************)
Apply(f, self) ==
    CASE f.name = "prim_next"        -> prim_next(self)
      [] f.name = "prim_word"        -> prim_word(self, f.word)
      [] f.name = "prim_char"        -> prim_char(self)
      [] f.name = "prim_digit"       -> prim_digit(self)
      [] f.name = "prim_eols"        -> prim_eols(self)
      [] f.name = "prim_eof"         -> prim_eof(self)
      [] f.name = "prim_eols_or_eof" -> prim_eols_or_eof(self)
      [] f.name = "prim_space"       -> prim_space(self)
      [] f.name = "prim_quote"       -> prim_quote(self)
      [] f.name = "prim_quote_single" -> prim_quote_single(self)
      [] f.name = "chomp_clear"      -> chomp_clear(self)
      [] f.name = "combi_one_or_more_of"  -> combi_one_or_more_of(self, f.inner[1])
      [] f.name = "combi_zero_or_more_of" -> combi_zero_or_more_of(self, f.inner[1])
      [] f.name = "combi_optional"        -> combi_optional(self, f.inner[1])
      [] f.name = "combi_first_success_of" -> combi_first_success_of(self, f.inner)
      [] f.name = "combi_until_first_do_second" ->
             combi_until_first_do_second(self, f.inner)
      [] f.name = "el_str"           -> el_str(self)
      [] f.name = "el_int"           -> el_int(self)
      [] f.name = "el_float"         -> el_float(self)
      [] f.name = "el_var"           -> el_var(self)
      [] f.name = "fn_var_sum"       -> fn_var_sum(self)
      [] f.name = "fn_var_assign"    -> fn_var_assign(self)
      [] f.name = "parse"            -> parse(self)
      [] f.name = "lang_prim_word"   -> lang_prim_word(self)
      [] f.name = "lang_prim_eols_or_eof" -> lang_prim_eols_or_eof(self)
      [] f.name = "lang_prim_eof"    -> lang_prim_eof(self)
      [] f.name = "lang_prim_eols"   -> lang_prim_eols(self)
      [] f.name = "lang_prim_quote"  -> lang_prim_quote(self)
      [] f.name = "lang_prim_digit"  -> lang_prim_digit(self)
      [] f.name = "lang_prim_char"   -> lang_prim_char(self)
      [] f.name = "lang_prim_next"   -> lang_prim_next(self)
      [] f.name = "lang_combi_one_or_more" -> lang_combi_one_or_more(self)
      [] f.name = "lang_one_of_all_lang_parsers" ->
             lang_one_of_all_lang_parsers(self)

(***************************************************************************)
(* Chains of public operations on Parser::new(input)                       *)
(***************************************************************************)
\* the texts whose prefixes are the inputs of the chains
Seeds ==
    << <<"=", " ", "x", " ", "+", " ", "1", " ", "2", ".", "5", CR, LF>>,
       <<"=", " ", "x", " ", "-", "1", LF, "=", " ", "x", " ", "y">>,
       <<"=", " ", "x", " ", "1", " ">>,
       <<" ", "=", " ", "x", " ", "1">>,
       <<"(", "+", " ", "1", " ", "2", ")", " ">>,
       <<"+", " ", "-", "1", ".", "5", " ", "2">>,
       <<"-", "1", "2", ".", "5", "x">>,
       <<"\"", "a", "\"", "b">>,
       <<LF, CR, LF, "x", " ", " ">>,
       <<"1", "2", ".", "3", "4">>,
       <<"a", "1", "2", ".", "5">>,
       <<"t", "e", "s", "t", "i", "n", "g">>,
       <<LF, "=", " ", "x", " ", "1">>,
       <<"(", "+", " ", "(", "+", " ", "1", " ", "2", ")", " ", "3", ")">>,
       <<CR, LF, CR, LF, LF, LF>> >>

Prefixes(text) == { SubSeq(text, 1, n) : n \in 0..Len(text) }

Inputs == UNION { Prefixes(Seeds[i]) : i \in 1..Len(Seeds) }

\* the words prim_word is called with
Words == { <<"=", " ">>, <<"-">>, CRLF, <<"x">>, <<"i">> }

\* the parser functions handed to the combinators
ArgFns ==
    { Fn("prim_digit"), Fn("prim_char"), Fn("prim_space"), Fn("prim_eof"),
      Fn("el_int"), Fn("el_float"), Fn("el_var"),
      Fn("fn_var_sum"), Fn("fn_var_assign") }

\* the steps handed to combi_until_first_do_second as `second`
StepFns == { Fn("prim_next"), Fn("prim_char") }

\* most alternatives handed to combi_first_success_of
MaxAlts == 2

AltLists == UNION { [1..n -> ArgFns] : n \in 1..MaxAlts }

NoSrc == [kind |-> "raw", body |-> <<>>, sep |-> <<>>, end |-> <<>>]

Init ==
    /\ \E input \in Inputs : parser = new(input)
    /\ entry = parser
    /\ op = Fn("new")
    /\ src = NoSrc
    /\ steps = 0
    /\ query = NoQuery

\* one public operation applied to the current state
Step(f) ==
    /\ steps < MaxSteps
    /\ ~Halted(parser)
    /\ parser' = Apply(f, parser)
    /\ entry' = parser
    /\ op' = f
    /\ steps' = steps + 1
    /\ UNCHANGED <<src, query>>

PrimNext == Step(Fn("prim_next"))

PrimWord == \E w \in Words : Step(FnWord(w))

PrimChar == Step(Fn("prim_char"))

PrimDigit == Step(Fn("prim_digit"))

PrimEols == Step(Fn("prim_eols"))

PrimEof == Step(Fn("prim_eof"))

PrimEolsOrEof == Step(Fn("prim_eols_or_eof"))

PrimSpace == Step(Fn("prim_space"))

PrimQuote == Step(Fn("prim_quote"))

ChompClear == Step(Fn("chomp_clear"))

CombiOneOrMoreOf == \E f \in ArgFns : Step(FnCombi("combi_one_or_more_of", <<f>>))

CombiZeroOrMoreOf == \E f \in ArgFns : Step(FnCombi("combi_zero_or_more_of", <<f>>))

CombiOptional == \E f \in ArgFns : Step(FnCombi("combi_optional", <<f>>))

CombiFirstSuccessOf ==
    \E fs \in AltLists : Step(FnCombi("combi_first_success_of", fs))

CombiUntilFirstDoSecond ==
    \E f \in ArgFns \union { FnWord(w) : w \in Words }, g \in StepFns :
        Step(FnCombi("combi_until_first_do_second", <<f, g>>))

ElStr == Step(Fn("el_str"))

ElInt == Step(Fn("el_int"))

ElFloat == Step(Fn("el_float"))

ElVar == Step(Fn("el_var"))

FnVarSum == Step(Fn("fn_var_sum"))

FnVarAssign == Step(Fn("fn_var_assign"))

Parse == Step(Fn("parse"))

Next ==
    \/ PrimNext \/ PrimWord \/ PrimChar \/ PrimDigit \/ PrimEols \/ PrimEof
    \/ PrimEolsOrEof \/ PrimSpace \/ PrimQuote \/ ChompClear
    \/ CombiOneOrMoreOf \/ CombiZeroOrMoreOf \/ CombiOptional
    \/ CombiFirstSuccessOf \/ CombiUntilFirstDoSecond
    \/ ElStr \/ ElInt \/ ElFloat \/ ElVar
    \/ FnVarSum \/ FnVarAssign \/ Parse

Spec == Init /\ [][Next]_vars

(***************************************************************************)
(* Generated programs: the surface grammar of statements and sums.  src    *)
(* keeps the syntax tree the input was written from.                       *)
(***************************************************************************)
Lit(ty, i) == [kind |-> "lit", ty |-> ty, leaf |-> i, br |-> FALSE, args |-> <<>>]

Sum(br, l, r) == [kind |-> "sum", ty |-> "", leaf |-> 0, br |-> br, args |-> <<l, r>>]

\* all expressions with exactly n literals, numbered from `first` on; every
\* sum is written with or without brackets, every literal is an int or a float
RECURSIVE ExprsOf(_, _)
ExprsOf(n, first) ==
    IF n = 1 THEN { Lit(ty, first) : ty \in {"Int64", "Float64"} }
    ELSE UNION { { Sum(br, l, r) : br \in BOOLEAN,
                                   l \in ExprsOf(k, first),
                                   r \in ExprsOf(n - k, first + k) }
                 : k \in 1..(n - 1) }

DigitChar(i) == <<"0", "1", "2", "3", "4", "5", "6", "7", "8", "9">>[i + 1]

\* the i-th literal: i as an int, i.5 (i odd) or i.0 (i even) as a float,
\* negative when i is even
LitText(e) ==
    (IF e.leaf % 2 = 0 THEN <<"-">> ELSE <<>>)
    \o <<DigitChar(e.leaf)>>
    \o (IF e.ty = "Float64"
        THEN <<".", IF e.leaf % 2 = 0 THEN "0" ELSE "5">>
        ELSE <<>>)

RECURSIVE Render(_)
Render(e) ==
    IF e.kind = "lit" THEN LitText(e)
    ELSE (IF e.br THEN <<"(">> ELSE <<>>)
         \o <<"+", " ">> \o Render(e.args[1]) \o <<" ">> \o Render(e.args[2])
         \o (IF e.br THEN <<")">> ELSE <<>>)

Names == { <<"x">>, <<"y">> }

\* sequences of k statements holding at most `budget` literals in all
RECURSIVE StmtSeqs(_, _, _)
StmtSeqs(k, budget, first) ==
    IF k = 0 THEN { <<>> }
    ELSE UNION { { <<[name |-> name, rhs |-> rhs]>> \o rest :
                        name \in Names,
                        rhs \in ExprsOf(n, first),
                        rest \in StmtSeqs(k - 1, budget - n, first + n) }
                 : n \in 1..(budget - (k - 1)) }

\* end-of-line sequences between two statements
Separators == { CRLF, <<LF>>, <<LF, CR, LF>> }

\* what follows the last statement
Endings == { <<>>, CRLF }

RenderStmt(st) == <<"=", " ">> \o st.name \o <<" ">> \o Render(st.rhs)

RECURSIVE RenderProgram(_, _, _)
RenderProgram(stmts, sep, end) ==
    IF Len(stmts) = 1 THEN RenderStmt(stmts[1]) \o end
    ELSE RenderStmt(stmts[1]) \o sep \o RenderProgram(Tail(stmts), sep, end)

\* statements fn_var_assign does not accept: a name as value, no value, no
\* assignment, a space after the value, a sum without its second operand, a
\* bracketed sum that is not closed
BadStatements ==
    { <<"=", " ", "x", " ", "y">>,
      <<"=", " ", "y", " ">>,
      <<"x">>,
      <<"=", " ", "x", " ", "1", " ">>,
      <<"=", " ", "y", " ", "+", " ", "1">>,
      <<"=", " ", "x", " ", "(", "+", " ", "1", " ", "2">> }

\* what follows the statement that is not accepted
Continuations == { <<>>, <<CR, LF, "=", " ", "y", " ", "2">> }

\* every statement followed by the separator
RECURSIVE RenderLines(_, _)
RenderLines(stmts, sep) ==
    IF stmts = <<>> THEN <<>>
    ELSE RenderStmt(stmts[1]) \o sep \o RenderLines(Tail(stmts), sep)

ProgInit ==
    /\ \/ \E k \in 1..MaxStmts :
            \E stmts \in StmtSeqs(k, MaxLeaves, 1) :
                \E sep \in Separators, end \in Endings :
                    /\ k = 1 => sep = CRLF
                    /\ src = [kind |-> "program", body |-> stmts,
                              sep |-> sep, end |-> end]
                    /\ parser = new(RenderProgram(stmts, sep, end))
       \/ \E n \in 2..MaxLeaves :
            \E e \in ExprsOf(n, 1) :
                /\ src = [kind |-> "sum", body |-> <<e>>, sep |-> <<>>, end |-> <<>>]
                /\ parser = new(Render(e))
       \/ \E k \in 0..(MaxStmts - 1) :
            \E stmts \in StmtSeqs(k, MaxLeaves - 1, 1) :
                \E sep \in Separators, bad \in BadStatements,
                   more \in Continuations :
                    /\ k = 0 => sep = CRLF
                    /\ src = [kind |-> "broken", body |-> stmts,
                              sep |-> sep, end |-> bad \o more]
                    /\ parser = new(RenderLines(stmts, sep) \o bad \o more)
    /\ entry = parser
    /\ op = Fn("new")
    /\ steps = 0
    /\ query = NoQuery

\* one call on the current state
Call(f) ==
    /\ ~Halted(parser)
    /\ parser' = Apply(f, parser)
    /\ entry' = parser
    /\ op' = f
    /\ steps' = steps + 1
    /\ UNCHANGED <<src, query>>

\* parse() on the fresh state
RunParse ==
    /\ src.kind \in {"program", "broken"}
    /\ op.name = "new"
    /\ Call(Fn("parse"))

\* fn_var_assign on the fresh state and again after each success
RunFnVarAssign ==
    /\ src.kind = "program"
    /\ op.name \in {"new", "fn_var_assign"}
    /\ parser.success
    /\ parser.input_remaining # <<>>
    /\ Call(Fn("fn_var_assign"))

\* fn_var_sum on the fresh state
RunFnVarSum ==
    /\ src.kind = "sum"
    /\ op.name = "new"
    /\ Call(Fn("fn_var_sum"))

ProgNext == RunParse \/ RunFnVarAssign \/ RunFnVarSum

ProgSpec == ProgInit /\ [][ProgNext]_vars

(***************************************************************************)
(* Descriptions: new_and_parse_aliases and the lang_ parsers on generated   *)
(* description strings.  src keeps the tokens the description was written   *)
(* from (body) and the description itself (end).                            *)
(***************************************************************************)
\* most tokens in a generated description
MaxTokens == 3

OneCharTokens ==
    { <<">">>, <<"\"">>, <<"@">>, <<"#">>, <<",">>, <<".">>, <<";">> }

WordTokens == { <<"'", "a", "'">>, <<"'", "a", "b", "'">> }

CombiTokens == { <<"1", "+", "a">>, <<"1", "+", "#">> }

Tokens == OneCharTokens \union WordTokens \union CombiTokens

TokenSeqs == UNION { [1..n -> Tokens] : n \in 0..MaxTokens }

RECURSIVE Flatten(_)
Flatten(toks) ==
    IF toks = <<>> THEN <<>> ELSE toks[1] \o Flatten(Tail(toks))

\* the texts whose prefixes are the inputs the descriptions are run on
AliasSeeds ==
    << <<"a", "a", "a", "a">>,
       <<"a", "b", "1", CR, LF, "!">>,
       <<"1", CR, LF, "\"", "a">> >>

AliasInputs == UNION { Prefixes(AliasSeeds[i]) : i \in 1..Len(AliasSeeds) }

AliasInit ==
    /\ \E toks \in TokenSeqs :
         \/ \E input \in AliasInputs :
                /\ src = [kind |-> "aliases", body |-> toks,
                          sep |-> <<>>, end |-> Flatten(toks)]
                /\ parser = new(input)
         \/ /\ src = [kind |-> "description", body |-> toks,
                       sep |-> <<>>, end |-> Flatten(toks)]
            /\ parser = new(Flatten(toks))
    /\ entry = parser
    /\ op = Fn("new")
    /\ steps = 0
    /\ query = NoQuery

\* new_and_parse_aliases(input_string, parser_lang_string)
NewAndParseAliases ==
    /\ src.kind = "aliases"
    /\ op.name = "new"
    /\ parser' = new_and_parse_aliases(parser.input_original, src.end)
    /\ entry' = parser
    /\ op' = Fn("new_and_parse_aliases")
    /\ steps' = steps + 1
    /\ UNCHANGED <<src, query>>

\* lang_one_of_all_lang_parsers on the description, as often as the loop of
\* new_and_parse_aliases calls it
LangOneOfAllLangParsers ==
    /\ src.kind = "description"
    /\ op.name \in {"new", "lang_one_of_all_lang_parsers"}
    /\ parser.success
    /\ Len(parser.input_remaining) > 0
    /\ Call(Fn("lang_one_of_all_lang_parsers"))

\* lang_combi_one_or_more on the description
LangCombiOneOrMore ==
    /\ src.kind = "description"
    /\ op.name = "new"
    /\ Call(Fn("lang_combi_one_or_more"))

AliasNext == NewAndParseAliases \/ LangOneOfAllLangParsers \/ LangCombiOneOrMore

AliasSpec == AliasInit /\ [][AliasNext]_vars

(***************************************************************************)
(* The arena helpers: elements appended to and removed from the output      *)
(* arena by hand and by fn_var_assign, and the queries on it                *)
(***************************************************************************)
\* most arena operations in a row
MaxArenaOps == 4

\* a name placeholder as el_var appends it, a value as el_int appends it, and
\* a variable as fn_var_assign appends it
ArenaElements ==
    { [ParserElement_new EXCEPT !.el_type = "Var", !.var_name = << <<"x">> >>],
      [ParserElement_new EXCEPT !.el_type = "Int64", !.int64 = <<1>>],
      [ParserElement_new EXCEPT !.el_type = "Var", !.var_name = << <<"y">> >>,
                                !.int64 = <<2>>] }

ArenaInputs ==
    { <<>>, <<"=", " ", "x", " ", "1", LF, "=", " ", "y", " ", "2">> }

ArenaInit ==
    /\ \E input \in ArenaInputs : parser = new(input)
    /\ entry = parser
    /\ op = Fn("new")
    /\ src = NoSrc
    /\ steps = 0
    /\ query = NoQuery

\* a call that returns the Parser
ArenaCall(name, returned_self, arguments) ==
    /\ steps < MaxArenaOps
    /\ ~Halted(parser)
    /\ parser' = returned_self
    /\ entry' = parser
    /\ op' = Fn(name)
    /\ steps' = steps + 1
    /\ query' = arguments
    /\ UNCHANGED src

ArenaAppendElement ==
    \E el \in ArenaElements :
        ArenaCall("output_arena_append_element",
                  output_arena_append_element(parser, el), NoQuery)

ArenaRemoveNthLast ==
    \E index \in 0..2 :
        ArenaCall("output_arena_remove_nth_last_child_element",
                  output_arena_remove_nth_last_child_element(parser, index),
                  [NoQuery EXCEPT !.index = index])

ArenaFnVarAssign ==
    /\ parser.success
    /\ parser.input_remaining # <<>>
    /\ ArenaCall("fn_var_assign", Apply(Fn("fn_var_assign"), parser), NoQuery)

\* the queries take a clone of the Parser and return an Option
ArenaGetNthLast ==
    \E index \in 0..3 :
        ArenaCall("output_arena_get_nth_last_child_element", parser,
                  [NoQuery EXCEPT
                     !.index = index,
                     !.result = output_arena_get_nth_last_child_element(parser, index)])

ArenaGetLast ==
    ArenaCall("output_arena_get_last_child_element", parser,
              [NoQuery EXCEPT
                 !.result = output_arena_get_last_child_element(parser)])

\* Node::get() on a removed node gives the data the node was removed with in
\* the releases of indextree that keep it, and panics in the releases that
\* free it; the filter of the query calls it on every node
ArenaFindElementVar ==
    \E var_name \in Names :
        \E halt \in IF \E i \in 1..Len(parser.output_arena.nodes) :
                         parser.output_arena.nodes[i].removed
                    THEN {"none", "panic"} ELSE {"none"} :
            ArenaCall("output_arena_find_element_var",
                      [parser EXCEPT !.halt = halt],
                      [NoQuery EXCEPT
                         !.var_name = <<var_name>>,
                         !.result = IF halt = "none"
                                    THEN output_arena_find_element_var(parser, var_name)
                                    ELSE <<>>])

ArenaNext ==
    \/ ArenaAppendElement
    \/ ArenaRemoveNthLast
    \/ ArenaFnVarAssign
    \/ ArenaGetNthLast
    \/ ArenaGetLast
    \/ ArenaFindElementVar

ArenaSpec == ArenaInit /\ [][ArenaNext]_vars

(***************************************************************************)
(* What a generated program denotes, read off its syntax tree               *)
(***************************************************************************)
\* "Int64" or "Float64" when every literal of e has that type, else "Mixed"
RECURSIVE ExprType(_)
ExprType(e) ==
    IF e.kind = "lit" THEN e.ty
    ELSE IF ExprType(e.args[1]) = ExprType(e.args[2]) THEN ExprType(e.args[1])
    ELSE "Mixed"

RECURSIVE LeafCount(_)
LeafCount(e) ==
    IF e.kind = "lit" THEN 1 ELSE LeafCount(e.args[1]) + LeafCount(e.args[2])

\* the arithmetic sum of the literals of e read as ints
RECURSIVE IntSum(_)
IntSum(e) ==
    IF e.kind = "lit" THEN (IF e.leaf % 2 = 0 THEN 0 - e.leaf ELSE e.leaf)
    ELSE IntSum(e.args[1]) + IntSum(e.args[2])

\* the arithmetic sum of the literals of e read as floats, in tenths
RECURSIVE FloatTenths(_)
FloatTenths(e) ==
    IF e.kind = "lit"
    THEN (IF e.leaf % 2 = 0 THEN 0 - 10 * e.leaf ELSE 10 * e.leaf + 5)
    ELSE FloatTenths(e.args[1]) + FloatTenths(e.args[2])

\* the element of type ty (or the Var element called name) that holds the
\* value of e
ValueEl(el_type, name, e) ==
    [el_type  |-> el_type,
     int64    |-> IF ExprType(e) = "Int64" THEN <<IntSum(e)>> ELSE <<>>,
     float64  |-> IF ExprType(e) = "Float64"
                  THEN <<NormFloat(<<FloatTenths(e), 1>>)>> ELSE <<>>,
     string   |-> <<>>,
     var_name |-> name]

VarEl(st) == ValueEl("Var", <<st.name>>, st.rhs)

ValidProgram ==
    /\ src.kind = "program"
    /\ \A k \in 1..Len(src.body) : ExprType(src.body[k].rhs) # "Mixed"

DistinctNames ==
    \A i, j \in 1..Len(src.body) :
        src.body[i].name = src.body[j].name => i = j

LiveVars(self) ==
    { i \in 1..Len(LiveChildren(self)) : LiveChildren(self)[i].el_type = "Var" }

(***************************************************************************)
(* Claims about programs, checked under ProgSpec                            *)
(***************************************************************************)
\* C1: after parse, or after a run of successful fn_var_assign calls, the
\* live output arena holds at most one Var element per variable name, so the
\* number of live Var elements is the number of distinct names assigned.
C1_OneVarPerName ==
    ( /\ ValidProgram
      /\ op.name \in {"parse", "fn_var_assign"}
      /\ ~Halted(parser)
      /\ parser.success
      /\ parser.input_remaining = <<>> )
    => LET live == LiveChildren(parser) IN
       /\ \A i, j \in LiveVars(parser) :
            live[i].var_name = live[j].var_name => i = j
       /\ Cardinality(LiveVars(parser))
            = Cardinality({ src.body[k].name : k \in 1..Len(src.body) })

\* C2: parse of N valid assignments to pairwise distinct names, separated by
\* end-of-line sequences, succeeds, consumes the whole input and leaves
\* exactly N live Var elements in statement order, the k-th with the k-th
\* name and the folded value and type of the k-th right-hand side.
C2_ParseDistinctNames ==
    ( /\ ValidProgram
      /\ DistinctNames
      /\ op.name = "parse" )
    => /\ ~Halted(parser)
       /\ parser.success
       /\ parser.input_remaining = <<>>
       /\ LiveChildren(parser) = [k \in 1..Len(src.body) |-> VarEl(src.body[k])]

C2_Witness ==
    /\ ValidProgram
    /\ DistinctNames
    /\ op.name = "parse"
    /\ Len(src.body) = 2
    /\ src.sep = <<LF, CR, LF>>
    /\ ExprType(src.body[1].rhs) = "Int64"
    /\ src.body[1].rhs.kind = "sum"
    /\ ExprType(src.body[2].rhs) = "Float64"
    /\ Len(LiveChildren(parser)) = 2
    /\ LiveChildren(parser)[2].float64 = << <<35, 1>> >>

\* C3: fn_var_sum on two operands of different element types (one Int64, one
\* Float64, nested or not, bracketed or not) returns success = false.
C3_MixedSumFails ==
    ( /\ src.kind = "sum"
      /\ op.name = "fn_var_sum"
      /\ { ExprType(src.body[1].args[1]), ExprType(src.body[1].args[2]) }
            = {"Int64", "Float64"} )
    => /\ ~Halted(parser)
       /\ ~parser.success

\* C4: fn_var_assign on `= name <expr>`, expr any nesting of bracketed and
\* unbracketed sums of integer literals, succeeds, consumes the whole input
\* and leaves exactly one live element, the Var element called name whose
\* int64 is the arithmetic sum of the literals.
C4_NestedIntSum ==
    ( /\ src.kind = "program"
      /\ Len(src.body) = 1
      /\ src.end = <<>>
      /\ ExprType(src.body[1].rhs) = "Int64"
      /\ op.name = "fn_var_assign" )
    => /\ ~Halted(parser)
       /\ parser.success
       /\ parser.input_remaining = <<>>
       /\ LiveChildren(parser) =
            << [el_type |-> "Var", int64 |-> <<IntSum(src.body[1].rhs)>>,
                float64 |-> <<>>, string |-> <<>>,
                var_name |-> <<src.body[1].name>>] >>

\* `= x + (+ 1 -2) 3`: both notations, nested
C4_Witness ==
    /\ src.kind = "program"
    /\ Len(src.body) = 1
    /\ src.end = <<>>
    /\ op.name = "fn_var_assign"
    /\ LET e == src.body[1].rhs IN
       /\ ExprType(e) = "Int64"
       /\ LeafCount(e) = 3
       /\ ~e.br
       /\ e.args[1].kind = "sum" /\ e.args[1].br
    /\ parser.success
    /\ Len(LiveChildren(parser)) = 1
    /\ LiveChildren(parser)[1].int64 = <<2>>

\* C5: for same-typed literals A and B, fn_var_sum on `+ A B` and on
\* `(+ A B)` both succeed, consume the whole input and end with the same live
\* arena: one element of the operands' type holding A + B; chomp is empty.
C5_SumOfTwoLiterals ==
    ( /\ src.kind = "sum"
      /\ LeafCount(src.body[1]) = 2
      /\ ExprType(src.body[1]) # "Mixed"
      /\ op.name = "fn_var_sum" )
    => /\ ~Halted(parser)
       /\ parser.success
       /\ parser.input_remaining = <<>>
       /\ parser.chomp = <<>>
       /\ LiveChildren(parser) =
            << ValueEl(ExprType(src.body[1]), <<>>, src.body[1]) >>

\* `(+ 1.5 -2.0)` folded to -0.5
C5_Witness ==
    /\ src.kind = "sum"
    /\ LeafCount(src.body[1]) = 2
    /\ ExprType(src.body[1]) = "Float64"
    /\ src.body[1].br
    /\ op.name = "fn_var_sum"
    /\ parser.success
    /\ LiveChildren(parser)[1].float64 = << <<0 - 5, 1>> >>

(***************************************************************************)
(* Claims about chains of operations, checked under Spec                    *)
(***************************************************************************)
Succeeds(self) == ~Halted(self) /\ self.success

Fails(self) == ~Halted(self) /\ ~self.success

PrimitiveNames ==
    { "prim_next", "prim_word", "prim_char", "prim_digit", "prim_eols",
      "prim_eof", "prim_eols_or_eof" }

\* the primitives, combinators, element parsers and function parsers
PropagatingNames ==
    PrimitiveNames \cup
    { "prim_space", "prim_quote",
      "combi_one_or_more_of", "combi_zero_or_more_of", "combi_optional",
      "combi_first_success_of", "combi_until_first_do_second",
      "el_str", "el_int", "el_float", "el_var",
      "fn_var_sum", "fn_var_assign" }

\* C6: fail propagation: entered with success = false, every primitive,
\* combinator, element parser and function parser returns its input
\* unchanged in input_remaining, chomp, chomping, success and both arenas.
C6_FailPropagation ==
    ( /\ op.name \in PropagatingNames
      /\ Fails(entry) )
    => /\ ~Halted(parser)
       /\ parser.input_remaining = entry.input_remaining
       /\ parser.chomp = entry.chomp
       /\ parser.chomping = entry.chomping
       /\ parser.success = entry.success
       /\ parser.output_arena = entry.output_arena
       /\ parser.language_arena = entry.language_arena

AllFail(funcs, self) ==
    \A i \in 1..Len(funcs) : Fails(Apply(funcs[i], self))

\* C8: combi_first_success_of entered with success = true, every alternative
\* failing, returns the entry state with only success changed to false.
C8_AllAlternativesFail ==
    ( /\ op.name = "combi_first_success_of"
      /\ Succeeds(entry)
      /\ AllFail(op.inner, entry) )
    => /\ ~Halted(parser)
       /\ ~parser.success
       /\ parser.input_remaining = entry.input_remaining
       /\ parser.chomp = entry.chomp
       /\ parser.output_arena = entry.output_arena
       /\ parser.language_arena = entry.language_arena

\* an alternative consumed input and appended an element on its clone
C8_Witness ==
    /\ op.name = "combi_first_success_of"
    /\ Succeeds(entry)
    /\ AllFail(op.inner, entry)
    /\ \E i \in 1..Len(op.inner) :
        LET tried == Apply(op.inner[i], entry) IN
        /\ tried.input_remaining # entry.input_remaining
        /\ tried.output_arena # entry.output_arena
    /\ entry.chomp # <<>>
    /\ Fails(parser)

\* the first alternative that succeeds on self, none before it aborting;
\* 0 if there is none
FirstSuccess(funcs, self) ==
    LET ok == { i \in 1..Len(funcs) :
                    /\ Succeeds(Apply(funcs[i], self))
                    /\ \A j \in 1..(i - 1) : Fails(Apply(funcs[j], self)) }
    IN IF ok = {} THEN 0 ELSE CHOOSE i \in ok : TRUE

\* C9: combi_first_success_of returns exactly p_i(entry state) for the
\* smallest i such that p_i succeeds on the entry state; nothing an earlier
\* failed alternative did and nothing a later alternative would do shows.
C9_FirstSuccessWins ==
    ( /\ op.name = "combi_first_success_of"
      /\ Succeeds(entry)
      /\ FirstSuccess(op.inner, entry) # 0 )
    => parser = Apply(op.inner[FirstSuccess(op.inner, entry)], entry)

\* the second alternative wins after the first consumed input and failed
C9_Witness ==
    /\ op.name = "combi_first_success_of"
    /\ Succeeds(entry)
    /\ FirstSuccess(op.inner, entry) = 2
    /\ Apply(op.inner[1], entry).input_remaining # entry.input_remaining
    /\ Apply(op.inner[1], entry).output_arena # entry.output_arena
    /\ Succeeds(parser)
    /\ parser.input_remaining # entry.input_remaining

\* C10: whenever fn_var_assign returns success = false, input_remaining,
\* chomp and the live output arena are those of the state it was called on.
C10_AssignFailsClean ==
    ( /\ op.name = "fn_var_assign"
      /\ entry = new(entry.input_original)
      /\ Fails(parser) )
    => /\ parser.input_remaining = entry.input_remaining
       /\ parser.chomp = entry.chomp
       /\ LiveChildren(parser) = LiveChildren(entry)

(***************************************************************************)
(* Claims about the element parsers, checked under Spec                     *)
(***************************************************************************)
\* the index of the first quote after the opening one, 0 when there is none
ClosingQuote(text) ==
    IF \E i \in 2..Len(text) : text[i] = "\""
    THEN CHOOSE i \in 2..Len(text) :
            /\ text[i] = "\""
            /\ \A j \in 2..(i - 1) : text[j] # "\""
    ELSE 0

\* text is a quote, a body without quotes, a quote and a rest
QuotedInput(text) ==
    /\ text # <<>>
    /\ text[1] = "\""
    /\ ClosingQuote(text) > 0

\* C11: el_str on a quote, a body without quotes, a closing quote and a rest
\* appends one Str element whose string is the body, leaves input_remaining
\* equal to the rest and chomp empty; nothing after the closing quote is
\* consumed or added to the string.
C11_StrStopsAtClosingQuote ==
    ( /\ op.name = "el_str"
      /\ entry = new(entry.input_original)
      /\ QuotedInput(entry.input_remaining) )
    => LET text == entry.input_remaining
           q    == ClosingQuote(text)
       IN /\ Succeeds(parser)
          /\ parser.input_remaining = Drop(text, q)
          /\ parser.chomp = <<>>
          /\ LiveChildren(parser) =
                << [ParserElement_new EXCEPT
                        !.el_type = "Str",
                        !.string = <<SubSeq(text, 2, q - 1)>>] >>

\* text is an optional minus sign, digits, a decimal point and digits
FloatLiteral(text) ==
    LET body == IF Negative(text) THEN Drop(text, 1) ELSE text
        dot  == DotAt(body)
    IN /\ dot > 1
       /\ dot < Len(body)
       /\ AllDigits(SubSeq(body, 1, dot - 1))
       /\ AllDigits(Drop(body, dot))

C13_NoAbort == parser.halt # "panic"

\* the combinators built on `while self.success`
RepetitionNames ==
    {"combi_one_or_more_of", "combi_zero_or_more_of",
     "combi_until_first_do_second"}

\* C14: combi_one_or_more_of, combi_zero_or_more_of and
\* combi_until_first_do_second return after finitely many applications for
\* all primitives handed to them, prim_eof included, on every finite input.
C14_RepetitionTerminates ==
    ( /\ op.name \in RepetitionNames
      /\ \A i \in 1..Len(op.inner) : op.inner[i].name \in PrimitiveNames )
    => parser.halt # "hang"

(***************************************************************************)
(* Claims about programs with a statement that is not accepted, checked     *)
(* under ProgSpec                                                           *)
(***************************************************************************)
BrokenProgram ==
    /\ src.kind = "broken"
    /\ \A k \in 1..Len(src.body) : ExprType(src.body[k].rhs) # "Mixed"
    /\ DistinctNames

\* C15: when parse returns success = false, input_remaining is the suffix of
\* the input that starts at the first statement that could not be parsed and
\* the live output arena holds exactly the elements of the statements that
\* succeeded before it: no name placeholder and no operand of the failed
\* statement is left.
C15_ParseStopsAtFailedStatement ==
    ( /\ BrokenProgram
      /\ op.name = "parse" )
    => /\ Fails(parser)
       /\ parser.input_remaining = src.end
       /\ LiveChildren(parser) =
             [k \in 1..Len(src.body) |-> VarEl(src.body[k])]

\* two statements succeed, then `= x 1 ` fails after its name and its value
\* were appended to the clone that is given up
C15_Witness ==
    /\ BrokenProgram
    /\ op.name = "parse"
    /\ Len(src.body) = 2
    /\ src.sep = <<LF, CR, LF>>
    /\ src.end = <<"=", " ", "x", " ", "1", " ", CR, LF, "=", " ", "y", " ", "2">>
    /\ ~parser.success
    /\ parser.input_remaining = src.end
    /\ Len(LiveChildren(parser)) = 2
    /\ Len(fn_var_assign([entry EXCEPT !.input_remaining = src.end])
                .output_arena.children) = 2

(***************************************************************************)
(* Claims about descriptions, checked under AliasSpec                       *)
(***************************************************************************)
\* the primitive a one-character token stands for
PrimitiveOf(tok) ==
    CASE tok = <<">">>  -> Fn("prim_next")
      [] tok = <<"\"">> -> Fn("prim_quote")
      [] tok = <<"@">>  -> Fn("prim_char")
      [] tok = <<"#">>  -> Fn("prim_digit")
      [] tok = <<",">>  -> Fn("prim_eols")
      [] tok = <<".">>  -> Fn("prim_eof")
      [] tok = <<";">>  -> Fn("prim_eols_or_eof")

\* funcs applied in order, each to the state the one before returned
RECURSIVE Threaded(_, _)
Threaded(funcs, self) ==
    IF funcs = <<>> THEN self
    ELSE Apply(funcs[Len(funcs)],
               Threaded(SubSeq(funcs, 1, Len(funcs) - 1), self))

\* the descriptors the description of the current state compiles to
Compiled == list_of_nodes(LangLoop(new(src.end)))

\* C16: for a description made only of the tokens > " @ # , . ; the
\* compilation yields one descriptor per token, in token order, and
\* new_and_parse_aliases returns the state that applying the corresponding
\* primitives in that order to Parser::new(input) returns.
C16_OneCharTokens ==
    ( /\ op.name = "new_and_parse_aliases"
      /\ \A i \in 1..Len(src.body) : src.body[i] \in OneCharTokens )
    => LET prims == [i \in 1..Len(src.body) |-> PrimitiveOf(src.body[i])] IN
       /\ Compiled = prims
       /\ parser = Threaded(prims, entry)

\* the description #," on the digit 1, CR LF and a quote
C16_Witness ==
    /\ op.name = "new_and_parse_aliases"
    /\ src.body = << <<"#">>, <<",">>, <<"\"">> >>
    /\ entry = new(<<"1", CR, LF, "\"">>)
    /\ parser.success
    /\ parser.input_remaining = <<>>
    /\ parser.chomp = <<"1", CR, LF>>

\* C17: a description made of the combinator token 1+ and a parser token is
\* compiled into a one-or-more repetition that is applied to the input:
\* new_and_parse_aliases on aaaa with 1+a returns success = true,
\* input_remaining empty and chomp aaaa, and with 1+# it returns what
\* combi_one_or_more_of(prim_digit) returns on Parser::new(input).
C17_OneOrMoreAlias ==
    ( /\ op.name = "new_and_parse_aliases"
      /\ Len(src.body) = 1
      /\ src.body[1] \in CombiTokens )
    => /\ ( /\ src.body[1] = <<"1", "+", "a">>
            /\ entry.input_original = <<"a", "a", "a", "a">> )
          => /\ Succeeds(parser)
             /\ parser.input_remaining = <<>>
             /\ parser.chomp = <<"a", "a", "a", "a">>
       /\ src.body[1] = <<"1", "+", "#">>
          => parser = combi_one_or_more_of(entry, Fn("prim_digit"))

\* the text between the two single quotes of a word token
WordOf(tok) == SubSeq(tok, 2, Len(tok) - 1)

\* C18: a word literal 'w' compiles to exactly one descriptor pairing
\* prim_word with w, and compilation resumes right after the closing quote:
\* the description 'w' followed by k one-character tokens yields k + 1
\* descriptors, and new_and_parse_aliases applies prim_word(w) and then
\* those k primitives.
C18_WordLiteral ==
    ( /\ op.name = "new_and_parse_aliases"
      /\ Len(src.body) >= 1
      /\ src.body[1] \in WordTokens
      /\ \A i \in 2..Len(src.body) : src.body[i] \in OneCharTokens )
    => LET funcs == [i \in 1..Len(src.body) |->
                        IF i = 1 THEN FnWord(WordOf(src.body[1]))
                        ELSE PrimitiveOf(src.body[i])]
       IN /\ Compiled = funcs
          /\ parser = Threaded(funcs, entry)

(***************************************************************************)
(* Claims about assignment to a name that is already assigned, checked      *)
(* under ProgSpec                                                           *)
(***************************************************************************)
\* the live children after the statements under the upsert rule: a
\* statement whose name has an element overwrites it in place, any other
\* statement appends one
RECURSIVE Upserted(_)
Upserted(stmts) ==
    IF stmts = <<>> THEN <<>>
    ELSE LET before == Upserted(SubSeq(stmts, 1, Len(stmts) - 1))
             st     == stmts[Len(stmts)]
             found  == { i \in 1..Len(before) : before[i].var_name = <<st.name>> }
         IN IF found = {} THEN Append(before, VarEl(st))
            ELSE [i \in 1..Len(before) |->
                    IF i \in found THEN VarEl(st) ELSE before[i]]

\* C19: when fn_var_assign assigns to a name that already has a live Var
\* element, that element keeps its name and its position among its siblings
\* and only its payload is overwritten; when the name is new, one Var
\* element is appended as newest child.
C19_UpsertInPlace ==
    ( /\ ValidProgram
      /\ op.name \in {"parse", "fn_var_assign"}
      /\ Succeeds(parser)
      /\ parser.input_remaining = <<>> )
    => LiveChildren(parser) = Upserted(src.body)

(***************************************************************************)
(* Claims about combi_one_or_more_of, checked under Spec                    *)
(***************************************************************************)
\* C20: combi_one_or_more_of(p) entered with success = true returns
\* success = true if and only if p succeeded at least once in the loop, that
\* is if and only if its first application succeeded; this holds for every
\* p, including parsers that consume with chomping disabled and parsers that
\* clear chomp on success.
C20_OneOrMoreIffOnce ==
    ( /\ op.name = "combi_one_or_more_of"
      /\ entry.success
      /\ ~Halted(parser) )
    => ( parser.success
         <=> Succeeds(Apply(op.inner[1],
                            [entry EXCEPT !.display_errors = FALSE])) )

(***************************************************************************)
(* Claims about the other combinators, checked under Spec                   *)
(***************************************************************************)
\* func applied k times, each time to the state the time before returned
RECURSIVE Iterated(_, _, _)
Iterated(func, self, k) ==
    IF k = 0 THEN self ELSE Apply(func, Iterated(func, self, k - 1))

\* the number of consecutive successes of func from self on
RunLength(func, self) ==
    CHOOSE k \in 0..(Len(self.input_remaining) + 1) :
        /\ \A j \in 1..k : Succeeds(Iterated(func, self, j))
        /\ ~Succeeds(Iterated(func, self, k + 1))

\* C21: combi_zero_or_more_of(p) entered with success = true always returns
\* success = true; if the first application of a primitive p fails, the
\* returned state is the entry state, otherwise the maximal run of
\* consecutive matches of p has been consumed.
C21_ZeroOrMore ==
    ( /\ op.name = "combi_zero_or_more_of"
      /\ entry.success
      /\ op.inner[1].name \in PrimitiveNames )
    => /\ Succeeds(parser)
       /\ ~Succeeds(Apply(op.inner[1], entry)) => parser = entry
       /\ parser = Iterated(op.inner[1], entry, RunLength(op.inner[1], entry))

\* C22: combi_optional(p) entered with success = true returns p(entry state)
\* with success forced to true; nothing a failed p did to input_remaining,
\* chomp or the arenas is rolled back.
C22_OptionalKeepsMutations ==
    ( /\ op.name = "combi_optional"
      /\ entry.success
      /\ ~Halted(Apply(op.inner[1], entry)) )
    => parser = [Apply(op.inner[1], entry) EXCEPT !.success = TRUE]

\* p failed after it had consumed input, and what it consumed stays consumed
C22_Witness ==
    /\ op.name = "combi_optional"
    /\ entry.success
    /\ ~Halted(parser)
    /\ ~Apply(op.inner[1], entry).success
    /\ parser.success
    /\ parser.input_remaining # entry.input_remaining

\* second has been applied k times with success and first matches after that
FirstMatchesAfter(first, second, self, k) ==
    /\ \A j \in 1..k : Succeeds(Iterated(second, self, j))
    /\ Succeeds(Apply(first, Iterated(second, self, k)))

\* the least number of applications of second after which first matches
StepsToFirstMatch(first, second, self) ==
    CHOOSE k \in 0..Len(self.input_remaining) :
        /\ FirstMatchesAfter(first, second, self, k)
        /\ \A j \in 0..(k - 1) : ~Succeeds(Apply(first, Iterated(second, self, j)))

\* C23: combi_until_first_do_second([first, second]) applies second until
\* first matches and stops there: nothing after the first match of first is
\* consumed, and success = true is returned.
C23_StopsAtFirstMatch ==
    ( /\ op.name = "combi_until_first_do_second"
      /\ entry.success
      /\ ~Halted(parser)
      /\ \E k \in 0..Len(entry.input_remaining) :
            FirstMatchesAfter(op.inner[1], op.inner[2], entry, k) )
    => LET first  == op.inner[1]
           second == op.inner[2]
           before == Iterated(second, entry, StepsToFirstMatch(first, second, entry))
       IN
       /\ parser.success
       /\ parser.input_remaining \in
             { before.input_remaining, Apply(first, before).input_remaining }

\* C24: whenever el_int, el_float or el_var returns success = false,
\* input_remaining and chomp are those of the state it was called on and no
\* element was appended to the output arena.
C24_ElementFailsClean ==
    ( /\ op.name \in {"el_int", "el_float", "el_var"}
      /\ ~Halted(parser)
      /\ ~parser.success )
    => /\ parser.input_remaining = entry.input_remaining
       /\ parser.chomp = entry.chomp
       /\ parser.output_arena = entry.output_arena

\* the elements and functions that clear chomp when they succeed, and parse
ClearingNames ==
    {"el_int", "el_float", "el_str", "el_var", "fn_var_sum", "fn_var_assign",
     "parse"}

\* C25: chomp is empty in every state returned with success = true by
\* el_int, el_float, el_str, el_var, fn_var_sum, fn_var_assign or parse when
\* called on a freshly constructed state.
C25_ChompEmptyAfterSuccess ==
    ( /\ op.name \in ClearingNames
      /\ entry = new(entry.input_original)
      /\ Succeeds(parser) )
    => parser.chomp = <<>>

\* the tag of an element and its populated payload fields agree
TagAgrees(el) ==
    CASE el.el_type = "Int64" ->
            /\ el.int64 # <<>>
            /\ el.float64 = <<>> /\ el.string = <<>> /\ el.var_name = <<>>
      [] el.el_type = "Float64" ->
            /\ el.float64 # <<>>
            /\ el.int64 = <<>> /\ el.string = <<>> /\ el.var_name = <<>>
      [] el.el_type = "Str" ->
            /\ el.string # <<>>
            /\ el.int64 = <<>> /\ el.float64 = <<>> /\ el.var_name = <<>>
      [] el.el_type = "Var" ->
            /\ el.var_name # <<>>
            /\ el.string = <<>>
            /\ el.int64 = <<>> \/ el.float64 = <<>>
      [] OTHER -> el = ParserElement_new

\* C26: in every state reachable from Parser::new by the public operations,
\* each live non-root element of the output arena has a tag and a payload
\* that agree.
C26_TagAndPayloadAgree ==
    ~Halted(parser) =>
        \A i \in 1..Len(LiveChildren(parser)) : TagAgrees(LiveChildren(parser)[i])

(***************************************************************************)
(* Claims about the arena helpers, checked under ArenaSpec                  *)
(***************************************************************************)
\* the live Var elements of the output arena that carry var_name
LiveVarsNamed(self, var_name) ==
    { i \in LiveVars(self) : LiveChildren(self)[i].var_name = var_name }

\* C27: output_arena_find_element_var(name) returns an element iff a live
\* Var element with that name exists in the output arena, and then returns
\* that live element; removed elements are never returned, and with no match
\* it returns None.
C27_FindReturnsLiveVar ==
    op.name = "output_arena_find_element_var"
    => /\ ~Halted(parser)
       /\ query.result # <<>> <=> LiveVarsNamed(parser, query.var_name) # {}
       /\ query.result # <<>> =>
            \E i \in LiveVarsNamed(parser, query.var_name) :
                query.result[1] = LiveChildren(parser)[i]

\* the elements that were appended and not removed since, oldest first
NotRemoved(self) ==
    SelectSeq(SubSeq(self.output_arena.nodes, 2, Len(self.output_arena.nodes)),
              LAMBDA x : ~x.removed)

\* C28: after any sequence of appends and removals,
\* output_arena_get_nth_last_child_element(n) returns the live child n
\* positions back from the newest live child (for n = 0 the one
\* output_arena_get_last_child_element returns), None when n is at least
\* the number of live children, and leaves the arena unchanged.
C28_NthLastChild ==
    op.name = "output_arena_get_nth_last_child_element"
    => LET live == NotRemoved(entry)
           n    == query.index
       IN
       /\ query.result = IF n < Len(live) THEN << live[Len(live) - n].el >>
                         ELSE <<>>
       /\ n = 0 => query.result = output_arena_get_last_child_element(entry)
       /\ parser = entry

\* a removal in the middle came before the query, and the query skipped the
\* removed element
C28_Witness ==
    /\ op.name = "output_arena_get_nth_last_child_element"
    /\ query.index = 1
    /\ query.result # <<>>
    /\ \E i \in 2..Len(parser.output_arena.nodes) :
         /\ parser.output_arena.nodes[i].removed
         /\ \E j \in 2..(i - 1) :
              /\ ~parser.output_arena.nodes[j].removed
              /\ query.result[1] = parser.output_arena.nodes[j].el
         /\ \E j \in (i + 1)..Len(parser.output_arena.nodes) :
              ~parser.output_arena.nodes[j].removed

(***************************************************************************)
(* Claims about parse as a loop, checked under Spec                         *)
(***************************************************************************)
\* the loop `while success and input_remaining is not empty: apply round`
\* has returned `returned_self` when entered in `self`
LoopReturns(round, self, returned_self) ==
    \E k \in 0..Len(self.input_remaining) :
        LET Over(state) == \/ Halted(state)
                           \/ ~state.success
                           \/ state.input_remaining = <<>>
        IN
        /\ returned_self = Iterated(round, self, k)
        /\ Over(returned_self)
        /\ \A j \in 0..(k - 1) : ~Over(Iterated(round, self, j))

\* C29: parse is the repeated application of
\* combi_first_success_of([fn_var_assign, prim_eols]) while success is true
\* and input_remaining is non-empty: parse and that loop return the same
\* state for every input, so end-of-line sequences at the start of the input
\* are consumed by parse itself.
C29_ParseIsAssignOrEolsLoop ==
    op.name = "parse"
    => LoopReturns(FnCombi("combi_first_success_of",
                           <<Fn("fn_var_assign"), Fn("prim_eols")>>),
                   entry, parser)

\* parse on a fresh input that begins with an end-of-line and goes on with a
\* statement, which it assigns
C29_Witness ==
    /\ op.name = "parse"
    /\ entry = new(entry.input_original)
    /\ StartsWith(entry.input_remaining, <<LF>>)
    /\ Succeeds(parser)
    /\ parser.input_remaining = <<>>
    /\ LiveVars(parser) # {}

\* C29 as stated: parse is the repeated application of
\* combi_first_success_of([fn_var_assign]) alone, so an input that begins
\* with an end-of-line sequence ends with success = false.
C29_ParseIsAssignLoop ==
    op.name = "parse"
    => LoopReturns(FnCombi("combi_first_success_of", <<Fn("fn_var_assign")>>),
                   entry, parser)

(***************************************************************************)
(* Claims about what a successful primitive consumes, checked under Spec    *)
(***************************************************************************)
\* returned_self is self with `matched` moved from the front of
\* input_remaining to the end of chomp (chomping on) or dropped (chomping off)
Consumed(self, returned_self, matched) ==
    /\ self.input_remaining = matched \o returned_self.input_remaining
    /\ returned_self.chomp = IF self.chomping THEN self.chomp \o matched
                             ELSE self.chomp
    /\ returned_self.success

\* one character as the primitives count them: a single character, or CR LF,
\* which is one grapheme cluster
OneCharacter(text) == Len(text) = 1 \/ text = CRLF

\* what primitive func may match when it succeeds
MatchedBy(func, matched) ==
    CASE func.name = "prim_word"  -> matched = func.word
      [] func.name = "prim_next"  -> OneCharacter(matched)
      [] func.name = "prim_char"  -> OneCharacter(matched) /\ matched # <<" ">>
      [] func.name = "prim_digit" -> Len(matched) = 1 /\ matched[1] \in Digits
      [] func.name = "prim_eof"   -> matched = <<>>
      [] OTHER -> TRUE

\* C30: when a primitive succeeds, input_remaining at entry is the matched
\* text followed by input_remaining at exit, chomp at exit is chomp at entry
\* followed by the matched text if chomping is true and chomp at entry if
\* chomping is false, and success is true; the matched text is the literal
\* for prim_word, one character for prim_char (never a space), prim_next
\* (any character, a space too) and prim_digit, and empty for prim_eof, which
\* succeeds iff input_remaining is empty.  Checked on the call made and on
\* the same call with chomping switched off, as prim_space and prim_quote
\* make it.
C30_PrimitiveSuccess ==
    op.name \in PrimitiveNames
    => \A chomping \in BOOLEAN :
        LET self          == [entry EXCEPT !.chomping = chomping]
            returned_self == Apply(op, self)
            matched       == SubSeq(self.input_remaining, 1,
                                Len(self.input_remaining)
                                  - Len(returned_self.input_remaining))
        IN
        /\ chomping = entry.chomping => returned_self = parser
        /\ returned_self.success =>
              /\ Consumed(self, returned_self, matched)
              /\ MatchedBy(op, matched)
        /\ (op.name = "prim_eof" /\ self.success) =>
              (returned_self.success <=> self.input_remaining = <<>>)

\* prim_next took a space, after something else had been chomped
C30_Witness ==
    /\ op.name = "prim_next"
    /\ Succeeds(parser)
    /\ entry.chomp # <<>>
    /\ entry.input_remaining # <<>>
    /\ entry.input_remaining[1] = " "
    /\ parser.chomp = entry.chomp \o <<" ">>

(***************************************************************************)
(* Claims about the input fields and about termination, checked under Spec  *)
(***************************************************************************)
IsSuffix(text, whole) ==
    /\ Len(text) <= Len(whole)
    /\ text = Drop(whole, Len(whole) - Len(text))

\* C31: in every state reachable from Parser::new(s), input_original is s
\* and input_remaining is a suffix of s; no operation lengthens
\* input_remaining or changes input_original.  entry is the state the last
\* operation was called on, and Parser::new(s) itself at the start.
C31_InputIsSuffix ==
    /\ op.name = "new" => parser.input_remaining = parser.input_original
    /\ parser.input_original = entry.input_original
    /\ IsSuffix(parser.input_remaining, entry.input_remaining)
    /\ IsSuffix(parser.input_remaining, parser.input_original)

\* two operations in a row consumed input, and some input is left
C31_Witness ==
    /\ steps = 2
    /\ ~Halted(parser)
    /\ parser.input_remaining # <<>>
    /\ Len(parser.input_remaining) < Len(entry.input_remaining)
    /\ Len(entry.input_remaining) < Len(entry.input_original)

\* one round of the loop of parse
ParseRound ==
    FnCombi("combi_first_success_of", <<Fn("fn_var_assign"), Fn("prim_eols")>>)

\* C32: parse terminates on every input: each round of its loop either sets
\* success = false or strictly shortens input_remaining, and on return
\* success is false or input_remaining is empty; the nested recursion of
\* fn_var_sum ends for every input as well, unterminated bracketed sums
\* included.
C32_ParseTerminates ==
    /\ op.name = "parse" =>
         /\ parser.halt # "hang"
         /\ ~Halted(parser) => (~parser.success \/ parser.input_remaining = <<>>)
         /\ \A j \in 0..Len(entry.input_remaining) :
              LET before == Iterated(ParseRound, entry, j)
                  after  == Apply(ParseRound, before)
              IN (Succeeds(before) /\ before.input_remaining # <<>>)
                 => \/ ~after.success
                    \/ Len(after.input_remaining) < Len(before.input_remaining)
    /\ op.name = "fn_var_sum" => parser.halt # "hang"

\* parse returned because its second round failed, with input left
C32_Witness ==
    /\ op.name = "parse"
    /\ Succeeds(entry)
    /\ Fails(parser)
    /\ parser.input_remaining # <<>>
    /\ Len(parser.input_remaining) < Len(entry.input_remaining)

\* C33: whenever fn_var_sum returns success = false, the returned state has
\* the input_remaining, chomp and output arena of the state it was called
\* on: neither attempt leaves consumed input or operand elements behind.
C33_SumFailsClean ==
    ( /\ op.name = "fn_var_sum"
      /\ ~Halted(parser)
      /\ ~parser.success )
    => /\ parser.input_remaining = entry.input_remaining
       /\ parser.chomp = entry.chomp
       /\ parser.output_arena = entry.output_arena

\* a bracketed sum with both operands and no closing bracket: the
\* with-brackets attempt parsed two operands before it failed
C33_Witness ==
    /\ op.name = "fn_var_sum"
    /\ Succeeds(entry)
    /\ Fails(parser)
    /\ entry.input_remaining = <<"(", "+", " ", "1", " ", "2">>

\* seq without the element n positions back from its last one
WithoutNthLast(seq, n) ==
    LET k == Len(seq) - n IN
    [i \in 1..(Len(seq) - 1) |-> IF i < k THEN seq[i] ELSE seq[i + 1]]

\* C34: output_arena_remove_nth_last_child_element(n) removes exactly the
\* live child n positions back from the newest, keeps every other live child
\* and their order, and leaves input_remaining, chomp and success unchanged;
\* when n is at least the number of live children the state is returned
\* unchanged.
C34_RemoveNthLast ==
    op.name = "output_arena_remove_nth_last_child_element"
    => LET live == LiveChildren(entry)
           n    == query.index
       IN
       /\ IF n < Len(live)
          THEN /\ LiveChildren(parser) = WithoutNthLast(live, n)
               /\ [i \in 1..Len(NotRemoved(parser)) |-> NotRemoved(parser)[i].el]
                    = WithoutNthLast(live, n)
          ELSE parser = entry
       /\ parser.input_remaining = entry.input_remaining
       /\ parser.chomp = entry.chomp
       /\ parser.success = entry.success

\* the middle one of three live children was removed
C34_Witness ==
    /\ op.name = "output_arena_remove_nth_last_child_element"
    /\ query.index = 1
    /\ Len(LiveChildren(entry)) = 3
    /\ Len(LiveChildren(parser)) = 2
    /\ LiveChildren(entry)[1] # LiveChildren(entry)[2]
    /\ LiveChildren(parser) = <<LiveChildren(entry)[1], LiveChildren(entry)[3]>>

(***************************************************************************)
(* Claims about end-of-line sequences, checked under Spec                   *)
(***************************************************************************)
\* the longest prefix of text that is a repetition of word
RECURSIVE RunOf(_, _)
RunOf(word, text) ==
    IF StartsWith(text, word)
    THEN word \o RunOf(word, Drop(text, Len(word)))
    ELSE <<>>

\* the end-of-line sequences at the front of text, of the kind of the first
EolRun(text) ==
    IF StartsWith(text, CRLF) THEN RunOf(CRLF, text) ELSE RunOf(<<LF>>, text)

\* C35: prim_eols succeeds iff input_remaining starts with CR LF or with LF;
\* it then consumes the maximal run of CR LF sequences if the input starts
\* with CR LF, otherwise the maximal run of LF characters, never a mix of
\* the two, and appends the consumed text to chomp; prim_eols_or_eof
\* additionally succeeds, consuming nothing, on empty input.
C35_EolRuns ==
    ( /\ op.name \in {"prim_eols", "prim_eols_or_eof"}
      /\ Succeeds(entry) )
    => LET text == entry.input_remaining
           run  == EolRun(text)
       IN
       /\ ~Halted(parser)
       /\ IF run # <<>>
          THEN /\ parser.success
               /\ parser.input_remaining = Drop(text, Len(run))
               /\ parser.chomp = entry.chomp \o run
          ELSE IF op.name = "prim_eols_or_eof" /\ text = <<>>
          THEN /\ parser.success
               /\ parser.input_remaining = <<>>
               /\ parser.chomp = entry.chomp
          ELSE ~parser.success

\* two CR LF were consumed in one call and the LF behind them was left
C35_Witness ==
    /\ op.name = "prim_eols"
    /\ Succeeds(parser)
    /\ StartsWith(entry.input_remaining, CRLF \o CRLF \o <<LF>>)
    /\ parser.input_remaining = Drop(entry.input_remaining, 4)

(***************************************************************************)
(* Claims about descriptions that stop compiling, checked under AliasSpec   *)
(***************************************************************************)
\* the number of one-character tokens at the front of the description
RECURSIVE LeadingOneCharTokens(_)
LeadingOneCharTokens(toks) ==
    IF toks = <<>> \/ toks[1] \notin OneCharTokens THEN 0
    ELSE 1 + LeadingOneCharTokens(Tail(toks))

\* the description stops compiling at the token 1+, which no meta-parser of
\* lang_one_of_all_lang_parsers matches, after one-character tokens only
StopsCompilingAtCombiToken ==
    LET k == LeadingOneCharTokens(src.body) IN
    /\ k < Len(src.body)
    /\ src.body[k + 1] \in CombiTokens

====
